---- MODULE Spec2Model ----
(***************************************************************************)
(* A model of three parts of llama-moe:                                    *)
(*   - the noisy top-k gate, smoe/modules/moefication/moe_gates.py         *)
(*   - the instrumentation patch change_forward,                           *)
(*     smoe/entrypoint/visualization/visualize_expert_load.py              *)
(*   - the cluster tally, smoe/entrypoint/analysis/clustering_distribution *)
(* Each part has its own specification (GateSpec, PatchSpec, ClusterSpec)  *)
(* over its own variables; the other parts' variables stay as initialised. *)
(*                                                                         *)
(* Numbers.  Logits are integers (fixed-point units).  Values the code     *)
(* obtains from exp, the normal cdf or a division are kept as terms: a     *)
(* softmax score is the pair (logit, row it is normalised over), a         *)
(* probability is the argument's numerator of the cdf, a sum is the        *)
(* sequence of its terms.  Equal terms denote equal values.                *)
(* Strings the code inspects character by character (lower, split) are     *)
(* sequences of one-character strings.                                     *)
(***************************************************************************)
EXTENDS Integers, Sequences, FiniteSets, TLC

VARIABLES
    (* gate *)
    gate,       \* the constructed TopKBalancedNoisyGate, or NoGate
    inp,        \* the batch handed to the gate and the noise drawn for it
    fwd,        \* what forward did on inp
    frs,        \* what forward_return_scores did on inp
    call,       \* the most recent call on the gate API, with its arguments
    (* instrumentation patch *)
    llama_model,   \* the model object: forwards and per-layer gate attributes
    patch_call,    \* the most recent call on the model, with the model before it
    (* cluster tally *)
    remaining,     \* the *.jsonl files the directory scan has yet to yield
    pc,            \* where main is
    cluster_idx,   \* stem of the file being processed
    data,          \* the records load_jsonlines returned for it
    pos,           \* index of the next record of data
    source_to_num, \* the tally of the file being processed
    charts,        \* cluster stem -> the tally barh was handed (rendered charts)
    printed        \* the files a "Done: <file>" line was printed for

gate_vars == <<gate, inp, fwd, frs, call>>
patch_vars == <<llama_model, patch_call>>
cluster_vars == <<remaining, pc, cluster_idx, data, pos, source_to_num, charts, printed>>
vars == <<gate, inp, fwd, frs, call, llama_model, patch_call,
          remaining, pc, cluster_idx, data, pos, source_to_num, charts, printed>>

(***************************************************************************)
(* The values a part's variables hold while another part runs.             *)
(***************************************************************************)
GateIdle ==
    /\ gate = [exists |-> FALSE]
    /\ inp = [given |-> FALSE]
    /\ fwd = [outcome |-> "idle"]
    /\ frs = [outcome |-> "idle"]
    /\ call = [op |-> "none"]

PatchIdle ==
    /\ llama_model = [forward |-> "original", config |-> [num_experts |-> 0], layers |-> <<>>]
    /\ patch_call = [op |-> "none"]

ClusterIdle ==
    /\ remaining = {}
    /\ pc = "idle"
    /\ cluster_idx = 0
    /\ data = <<>>
    /\ pos = 1
    /\ source_to_num = <<>>
    /\ charts = <<>>
    /\ printed = {}

(***************************************************************************)
(* Bounds                                                                  *)
(***************************************************************************)
MaxExperts == 3
\* A batch holds at most MaxCells logits: batch_size * num_experts <= MaxCells.
MaxCells == 4
LogitVals == {-1, 0, 1}
NoiseVals == {-2, 2}

Min(a, b) == IF a <= b THEN a ELSE b

(***************************************************************************)
(* Gate: construction                                                      *)
(***************************************************************************)
NoGate == [exists |-> FALSE]
NoInput == [given |-> FALSE]

linear == <<"l", "i", "n", "e", "a", "r">>
mlp == <<"m", "l", "p">>
valid_gate_type == {linear, mlp}

\* The gate_network arguments tried.
GateTypeArgs ==
    { linear, mlp,
      <<"L", "i", "n", "e", "a", "r">>, <<"M", "L", "P">>, <<"m", "L", "p">>,
      <<"m", "l", "p", " ">>, <<"c", "o", "n", "v">>, <<>> }

\* str.lower on the letters that occur.
LowerChar(c) ==
    CASE c = "L" -> "l" [] c = "I" -> "i" [] c = "N" -> "n" [] c = "E" -> "e"
      [] c = "A" -> "a" [] c = "R" -> "r" [] c = "M" -> "m" [] c = "P" -> "p"
      [] c = "C" -> "c" [] c = "O" -> "o" [] c = "V" -> "v"
      [] OTHER -> c

lower(s) == [i \in DOMAIN s |-> LowerChar(s[i])]

\* A bug get_gate_network could have: the comparison without the lower().
get_gate_network_case_sensitive(gate_type) ==
    IF gate_type \in valid_gate_type
    THEN [raised |-> "", network |-> gate_type]
    ELSE [raised |-> "ValueError", network |-> <<>>]

\* The network built for gate_type, or the ValueError raised.
get_gate_network(gate_type) ==
    LET t == lower(gate_type)
    IN  IF t = linear THEN [raised |-> "", network |-> linear]
        ELSE IF t = mlp THEN [raised |-> "", network |-> mlp]
        ELSE [raised |-> "ValueError", network |-> <<>>]

\* TopKBalancedNoisyGate.__init__: the object, or the exception.  A fresh
\* nn.Module is in training mode.  The weights of gate_network and weight_noise
\* are not kept: what they compute for a batch is given with the batch.
TopKBalancedNoisyGate_init(a) ==
    IF ~(a.num_selects <= a.num_experts)
    THEN [raised |-> "AssertionError", network |-> <<>>, obj |-> NoGate]
    ELSE LET net == get_gate_network(a.gate_network)
         IN  IF net.raised # ""
             THEN [raised |-> net.raised, network |-> <<>>, obj |-> NoGate]
             ELSE [raised |-> "",
                   network |-> net.network,
                   obj |-> [exists |-> TRUE,
                            num_experts |-> a.num_experts,
                            num_selects |-> a.num_selects,
                            use_balance |-> a.use_balance,
                            add_noise |-> a.add_noise,
                            use_softmax |-> a.use_softmax,
                            training |-> TRUE]]

(***************************************************************************)
(* Gate: forward                                                           *)
(***************************************************************************)
NoLoss == [kind |-> "None"]
Zero == [soft |-> FALSE, logit |-> 0, over |-> <<>>]
NoInternals == [balanced |-> FALSE]

NotCalled ==
    [outcome |-> "not_called", error |-> "", top_k_indices |-> <<>>,
     top_k_scores |-> <<>>, scores |-> <<>>, gate_loss |-> NoLoss,
     internals |-> NoInternals]

Raised(e) == [NotCalled EXCEPT !.outcome = "raised", !.error = e]

\* nn.Softmax(1) of one row: each entry is exp(logit) / sum of exp over the row.
softmax(row) == [j \in DOMAIN row |-> [soft |-> TRUE, logit |-> row[j], over |-> row]]
\* The raw logits used as scores.
raw_scores(row) == [j \in DOMAIN row |-> [soft |-> FALSE, logit |-> row[j], over |-> <<>>]]

\* score > 0: a softmax value is positive, a raw score is its logit.
GtZero(s) == IF s.soft THEN TRUE ELSE s.logit > 0

\* cv_squared: 0 for a one-element vector, else var / (mean^2 + eps) of x.
cv_squared(x) ==
    IF Len(x) = 1 THEN [zero |-> TRUE, of |-> <<>>] ELSE [zero |-> FALSE, of |-> x]

PermSeqs(n) == {p \in [1..n -> 1..n] : \A i, j \in 1..n : i # j => p[i] # p[j]}

\* The orders in which a descending sort may list a row's experts (ties in
\* either order): topk returns a prefix of one of them.
SortedOrders(row) ==
    {p \in PermSeqs(Len(row)) :
        \A i, j \in 1..Len(row) : i < j => row[p[i]] >= row[p[j]]}

Noisy(g) == g.training /\ g.add_noise

\* logits = logits_gate + logits_noise in training with add_noise, else logits_gate.
Logits(g, lg, ln) ==
    IF Noisy(g)
    THEN [b \in DOMAIN lg |-> [e \in DOMAIN lg[b] |-> lg[b][e] + ln[b][e]]]
    ELSE lg

Flatten(mat, m) ==
    [p \in 1..(Len(mat) * m) |-> mat[((p - 1) \div m) + 1][((p - 1) % m) + 1]]

\* logits.topk(min(num_selects + 1, num_experts)) and the slices to num_selects.
TopK(g, i) ==
    LET logits == Logits(g, i.logits_gate, i.logits_noise)
        B == Len(i.logits_gate)
        m == Min(g.num_selects + 1, g.num_experts)
        top_indices == [b \in 1..B |-> SubSeq(i.order[b], 1, m)]
        top_logits == [b \in 1..B |-> [j \in 1..m |-> logits[b][top_indices[b][j]]]]
    IN  [logits |-> logits, B |-> B, m |-> m,
         top_indices |-> top_indices, top_logits |-> top_logits,
         top_k_logits |-> [b \in 1..B |-> SubSeq(top_logits[b], 1, g.num_selects)],
         top_k_indices |-> [b \in 1..B |-> SubSeq(top_indices[b], 1, g.num_selects)]]

top_k_scores_of(g, t) ==
    IF g.use_softmax
    THEN [b \in 1..t.B |-> softmax(t.top_k_logits[b])]
    ELSE [b \in 1..t.B |-> raw_scores(t.top_k_logits[b])]

\* zeros.scatter(dim=1, index=top_k_indices, src=top_k_scores)
scores_filtered_of(g, t, top_k_scores) ==
    [b \in 1..t.B |->
        [e \in 1..g.num_experts |->
            IF \E j \in 1..g.num_selects : t.top_k_indices[b][j] = e
            THEN top_k_scores[b][CHOOSE j \in 1..g.num_selects : t.top_k_indices[b][j] = e]
            ELSE Zero]]

\* is_in = torch.gt(logits_noise, threshold_if_in)
is_in_of(logits_gate, logits_noise, threshold_if_in) ==
    [b \in DOMAIN logits_noise |->
        [e \in DOMAIN logits_noise[b] |-> logits_noise[b][e] > threshold_if_in[b]]]

\* The balance branch: importance, load and the loss, or the exception of
\* torch.gather on a position outside top_values_flat.
Balance(g, i, t, top_k_scores) ==
    LET scores_filtered == scores_filtered_of(g, t, top_k_scores)
        importance == [e \in 1..g.num_experts |-> [b \in 1..t.B |-> scores_filtered[b][e]]]
        top_values_flat == Flatten(t.top_logits, t.m)
        \* 0-based positions, as in the code
        threshold_positions_if_in == [b \in 1..t.B |-> (b - 1) * t.m + g.num_selects]
        threshold_positions_if_out == [b \in 1..t.B |-> threshold_positions_if_in[b] - 1]
        InRange(ps) == \A b \in 1..t.B : ps[b] >= 0 /\ ps[b] < Len(top_values_flat)
        threshold_if_in == [b \in 1..t.B |-> top_values_flat[threshold_positions_if_in[b] + 1]]
        threshold_if_out == [b \in 1..t.B |-> top_values_flat[threshold_positions_if_out[b] + 1]]
        is_in == is_in_of(i.logits_gate, i.logits_noise, threshold_if_in)
        \* normal.cdf((logits_gate - threshold) / noise_control), kept as its numerator
        prob == [b \in 1..t.B |->
                    [e \in 1..g.num_experts |->
                        [cdf_of |-> i.logits_gate[b][e]
                                    - (IF is_in[b][e] THEN threshold_if_in[b]
                                                      ELSE threshold_if_out[b])]]]
        load_noisy == [e \in 1..g.num_experts |-> [b \in 1..t.B |-> prob[b][e]]]
        load_count == [e \in 1..g.num_experts |->
                          Cardinality({b \in 1..t.B : GtZero(scores_filtered[b][e])})]
    IN  IF g.add_noise
        THEN IF ~InRange(threshold_positions_if_in) \/ ~InRange(threshold_positions_if_out)
             THEN [raised |-> "RuntimeError", gate_loss |-> NoLoss, internals |-> NoInternals]
             ELSE [raised |-> "",
                   gate_loss |-> [kind |-> "loss",
                                  cv_importance |-> cv_squared(importance),
                                  cv_load |-> cv_squared(load_noisy)],
                   internals |-> [balanced |-> TRUE, noisy |-> TRUE,
                                  logits |-> t.logits,
                                  threshold_if_in |-> threshold_if_in,
                                  threshold_if_out |-> threshold_if_out,
                                  is_in |-> is_in,
                                  load |-> load_noisy]]
        ELSE [raised |-> "",
              gate_loss |-> [kind |-> "loss",
                             cv_importance |-> cv_squared(importance),
                             cv_load |-> cv_squared(load_count)],
              internals |-> [balanced |-> TRUE, noisy |-> FALSE,
                             logits |-> t.logits,
                             threshold_if_in |-> <<>>,
                             threshold_if_out |-> <<>>,
                             is_in |-> <<>>,
                             load |-> load_count]]

\* TopKBalancedNoisyGate.forward
forward(g, i) ==
    LET t == TopK(g, i)
        top_k_scores == top_k_scores_of(g, t)
    IN  IF g.training /\ g.use_balance
        THEN LET bal == Balance(g, i, t, top_k_scores)
             IN  IF bal.raised # ""
                 THEN Raised(bal.raised)
                 ELSE [NotCalled EXCEPT !.outcome = "returned",
                                        !.top_k_indices = t.top_k_indices,
                                        !.top_k_scores = top_k_scores,
                                        !.gate_loss = bal.gate_loss,
                                        !.internals = bal.internals]
        ELSE [NotCalled EXCEPT !.outcome = "returned",
                               !.top_k_indices = t.top_k_indices,
                               !.top_k_scores = top_k_scores]

\* TopKBalancedNoisyGate.forward_return_scores.  Its noise step is
\* torch.mm(x, self.weight_noise) with weight_noise an nn.Linear module: a TypeError.
forward_return_scores(g, i) ==
    IF Noisy(g)
    THEN Raised("TypeError")
    ELSE LET t == TopK(g, i)
             scores == IF g.use_softmax
                       THEN [b \in 1..t.B |-> softmax(t.logits[b])]
                       ELSE [b \in 1..t.B |-> raw_scores(t.logits[b])]
             top_k_scores == top_k_scores_of(g, t)
         IN  IF g.training /\ g.use_balance
             THEN LET bal == Balance(g, i, t, top_k_scores)
                  IN  IF bal.raised # ""
                      THEN Raised(bal.raised)
                      ELSE [NotCalled EXCEPT !.outcome = "returned",
                                             !.scores = scores,
                                             !.gate_loss = bal.gate_loss,
                                             !.internals = bal.internals]
             ELSE [NotCalled EXCEPT !.outcome = "returned", !.scores = scores]

(***************************************************************************)
(* Gate: actions                                                           *)
(***************************************************************************)
GateInit ==
    /\ gate = NoGate
    /\ inp = NoInput
    /\ fwd = NotCalled
    /\ frs = NotCalled
    /\ call = [op |-> "none"]
    /\ PatchIdle
    /\ ClusterIdle

\* gate = TopKBalancedNoisyGate(input_size, num_experts, num_selects, ...), once.
Construct ==
    /\ call.op = "none"
    /\ \E n \in 1..MaxExperts, k \in 1..(MaxExperts + 1), ty \in GateTypeArgs,
          ub \in BOOLEAN, an \in BOOLEAN, us \in BOOLEAN :
          LET a == [num_experts |-> n, num_selects |-> k, gate_network |-> ty,
                    use_balance |-> ub, add_noise |-> an, use_softmax |-> us]
              r == TopKBalancedNoisyGate_init(a)
          IN  /\ gate' = r.obj
              /\ call' = [op |-> "construct", args |-> a, raised |-> r.raised,
                           network |-> r.network]
    /\ UNCHANGED <<inp, fwd, frs, patch_vars, cluster_vars>>

\* gate.train() / gate.eval(), between batches.
SetTraining ==
    /\ gate.exists
    /\ ~inp.given
    /\ \E mode \in BOOLEAN :
          /\ mode # gate.training
          /\ gate' = [gate EXCEPT !.training = mode]
    /\ call' = [op |-> "train"]
    /\ UNCHANGED <<inp, fwd, frs>>
    /\ UNCHANGED <<patch_vars, cluster_vars>>

\* A batch x arrives: logits_gate = gate_network(x) (any matrix: the weights are
\* learned), the sample randn_like(logits_gate) * noise_control that the noise
\* step draws for it, and the order in which topk lists each row's experts.
Feed ==
    /\ gate.exists
    /\ ~inp.given
    /\ \E B \in 0..(MaxCells \div gate.num_experts) :
       \E lg \in [1..B -> [1..gate.num_experts -> LogitVals]] :
       \E ln \in (IF Noisy(gate) THEN [1..B -> [1..gate.num_experts -> NoiseVals]] ELSE {<<>>}) :
       \E ord \in [1..B -> PermSeqs(gate.num_experts)] :
          /\ \A b \in 1..B : ord[b] \in SortedOrders(Logits(gate, lg, ln)[b])
          /\ inp' = [given |-> TRUE, logits_gate |-> lg, logits_noise |-> ln, order |-> ord]
    /\ fwd' = NotCalled
    /\ frs' = NotCalled
    /\ call' = [op |-> "feed"]
    /\ UNCHANGED <<gate, patch_vars, cluster_vars>>

\* The caller is done with the batch and its results.
Release ==
    /\ inp.given
    /\ inp' = NoInput
    /\ fwd' = NotCalled
    /\ frs' = NotCalled
    /\ call' = [op |-> "release"]
    /\ UNCHANGED <<gate, patch_vars, cluster_vars>>

Forward ==
    /\ gate.exists
    /\ inp.given
    /\ fwd' = forward(gate, inp)
    /\ call' = [op |-> "forward"]
    /\ UNCHANGED <<gate, inp, frs, patch_vars, cluster_vars>>

ForwardReturnScores ==
    /\ gate.exists
    /\ inp.given
    /\ frs' = forward_return_scores(gate, inp)
    /\ call' = [op |-> "forward_return_scores"]
    /\ UNCHANGED <<gate, inp, fwd, patch_vars, cluster_vars>>

(***************************************************************************)
(* Instrumentation patch: change_forward                                   *)
(***************************************************************************)
MaxLayers == 2
MaxSamples == 3

GateTypes == {"TopKBalancedNoisyGate", "OtherGate"}
\* llama_model.config.num_experts of the models loaded.
ExpertCounts == {1, 2}
\* The numbers of real tokens a batch may hold.
TokensPerBatch == {1, 2}

NoAccumulators == [attached |-> FALSE]
ZeroVector(num_experts) == [e \in 1..num_experts |-> 0]

\* A bug the patch could have: accumulators that exist already are kept.
keep_accumulators(old, num_experts) ==
    IF old.attached
    THEN old
    ELSE [attached |-> TRUE, samples_cnt |-> 0,
          importance_sum |-> ZeroVector(num_experts), importance_loss_sum |-> 0,
          load_sum |-> ZeroVector(num_experts), load_loss_sum |-> 0]

\* samples_cnt = 0 and the four torch.zeros sums, whatever the gate held before.
zero_accumulators(old, num_experts) ==
    [attached |-> TRUE, samples_cnt |-> 0,
     importance_sum |-> ZeroVector(num_experts), importance_loss_sum |-> 0,
     load_sum |-> ZeroVector(num_experts), load_loss_sum |-> 0]

\* The body of the loop for one layer that passed the assertion.
patch_layer(layer, num_experts) ==
    [layer EXCEPT !.forward = "patched",
                  !.mlp_forward = "patched",
                  !.gate_forward = "patched",
                  !.acc = zero_accumulators(layer.acc, num_experts)]

\* The loop over llama_model.layers from layer idx on: stops at the first layer
\* whose gate fails the assertion, with the layers before it already patched.
RECURSIVE patch_layers(_, _)
patch_layers(model, idx) ==
    IF idx > Len(model.layers)
    THEN [raised |-> "", model |-> model]
    ELSE IF model.layers[idx].gate_type # "TopKBalancedNoisyGate"
         THEN [raised |-> "AssertionError", model |-> model]
         ELSE patch_layers([model EXCEPT !.layers[idx] =
                                          patch_layer(model.layers[idx], model.config.num_experts)],
                           idx + 1)

\* A bug the patch could have avoided: every gate is checked before anything is replaced.
change_forward_checked_first(model) ==
    IF \E idx \in 1..Len(model.layers) : model.layers[idx].gate_type # "TopKBalancedNoisyGate"
    THEN [raised |-> "AssertionError", model |-> model]
    ELSE patch_layers([model EXCEPT !.forward = "patched"], 1)

\* change_forward(llama_model, device): the model forward is replaced, then the loop runs.
change_forward(model) ==
    patch_layers([model EXCEPT !.forward = "patched"], 1)

FullyPatched(model) ==
    /\ model.forward = "patched"
    /\ \A idx \in 1..Len(model.layers) :
          /\ model.layers[idx].forward = "patched"
          /\ model.layers[idx].mlp_forward = "patched"
          /\ model.layers[idx].gate_forward = "patched"
          /\ model.layers[idx].acc.attached

\* The imbalance term a load or importance vector adds to its loss sum: the
\* numerator of its variance, 0 exactly for a uniform vector.
RECURSIVE SumVector(_, _)
SumVector(v, e) == IF e = 0 THEN 0 ELSE v[e] + SumVector(v, e - 1)

ImbalanceTerm(v) ==
    LET total == SumVector(v, Len(v))
        sq == [e \in 1..Len(v) |-> (Len(v) * v[e] - total) * (Len(v) * v[e] - total)]
    IN  SumVector(sq, Len(v))

\* forward_mlp_moe_gate_with_hidden_states_recording on one layer's gate: a batch of
\* Len(routing) real tokens, token i routed to expert routing[i] with score 1.
record_gate(acc, routing) ==
    LET experts == DOMAIN acc.load_sum
        load == [e \in experts |-> Cardinality({i \in DOMAIN routing : routing[i] = e})]
    IN  [acc EXCEPT !.samples_cnt = @ + Len(routing),
                    !.importance_sum = [e \in experts |-> @[e] + load[e]],
                    !.importance_loss_sum = @ + ImbalanceTerm(load),
                    !.load_sum = [e \in experts |-> @[e] + load[e]],
                    !.load_loss_sum = @ + ImbalanceTerm(load)]

PatchInit ==
    /\ \E L \in 1..MaxLayers :
       \E types \in [1..L -> GateTypes] :
       \E num_experts \in ExpertCounts :
          llama_model = [forward |-> "original",
                         config |-> [num_experts |-> num_experts],
                         layers |-> [idx \in 1..L |->
                                        [gate_type |-> types[idx],
                                         forward |-> "original",
                                         mlp_forward |-> "original",
                                         gate_forward |-> "original",
                                         acc |-> NoAccumulators]]]
    /\ patch_call = [op |-> "none"]
    /\ GateIdle
    /\ ClusterIdle

ChangeForward ==
    LET r == change_forward(llama_model)
    IN  /\ llama_model' = r.model
        /\ patch_call' = [op |-> "change_forward", raised |-> r.raised, before |-> llama_model]
        /\ UNCHANGED <<gate_vars, cluster_vars>>

\* model(**batch) on the patched model: every layer's gate records the batch.
ForwardPass ==
    /\ FullyPatched(llama_model)
    /\ \E t \in TokensPerBatch :
          /\ llama_model.layers[1].acc.samples_cnt + t <= MaxSamples
          /\ \E routing \in [1..Len(llama_model.layers) ->
                                    [1..t -> 1..llama_model.config.num_experts]] :
                llama_model' =
                    [llama_model EXCEPT
                        !.layers = [idx \in 1..Len(llama_model.layers) |->
                                       [llama_model.layers[idx] EXCEPT
                                           !.acc = record_gate(@, routing[idx])]]]
    /\ patch_call' = [op |-> "forward"]
    /\ UNCHANGED <<gate_vars, cluster_vars>>

(***************************************************************************)
(* Cluster tally: clustering_distribution.main                             *)
(***************************************************************************)
MaxFiles == 3
MaxRecords == 2

arxiv == <<"a", "r", "x", "i", "v">>
books == <<"b", "o", "o", "k", "s">>
c4 == <<"c", "4">>
commoncrawl == <<"c", "o", "m", "m", "o", "n", "c", "r", "a", "w", "l">>
github == <<"g", "i", "t", "h", "u", "b">>
stackexchange == <<"s", "t", "a", "c", "k", "e", "x", "c", "h", "a", "n", "g", "e">>
wikipedia == <<"w", "i", "k", "i", "p", "e", "d", "i", "a">>

Sources == {arxiv, books, c4, commoncrawl, github, stackexchange, wikipedia}

\* The `file` fields that occur in the cluster files.
FileFields ==
    { <<"a", "r", "x", "i", "v", "-", "1">>,
      <<"a", "r", "x", "i", "v", "-", "2", "-", "x">>,
      <<"c", "4">>,
      <<"w", "e", "b", "-", "1">> }

\* str.split("-"): the pieces between the dashes.
RECURSIVE split(_)
split(s) ==
    IF \E i \in 1..Len(s) : s[i] = "-"
    THEN LET i == CHOOSE i \in 1..Len(s) : s[i] = "-" /\ \A j \in 1..(i - 1) : s[j] # "-"
         IN  <<SubSeq(s, 1, i - 1)>> \o split(SubSeq(s, i + 1, Len(s)))
    ELSE <<s>>

\* source = ins["file"].split("-")[0]
source_of(ins) == split(ins.file)[1]

\* A bug: the tally of the file before is kept.
carried_tally == IF DOMAIN source_to_num = Sources THEN source_to_num ELSE [s \in Sources |-> 0]

\* The dict literal every file starts from.
new_source_to_num == [s \in Sources |-> 0]

\* A bug: a source that is no key is passed over.
increment_known_only(tally, source) ==
    IF source \in DOMAIN tally
    THEN [raised |-> "", tally |-> [tally EXCEPT ![source] = @ + 1]]
    ELSE [raised |-> "", tally |-> tally]

\* source_to_num[source] += 1: a KeyError for a source that is no key.
increment(tally, source) ==
    IF source \in DOMAIN tally
    THEN [raised |-> "", tally |-> [tally EXCEPT ![source] = @ + 1]]
    ELSE [raised |-> "KeyError", tally |-> tally]

ClusterInit ==
    /\ \E n \in 0..MaxFiles : remaining = 1..n
    /\ pc = "scan"
    /\ cluster_idx = 0
    /\ data = <<>>
    /\ pos = 1
    /\ source_to_num = <<>>
    /\ charts = <<>>
    /\ printed = {}
    /\ GateIdle
    /\ PatchIdle

\* The directory scan yields a file (in no particular order); its tally is a
\* fresh dict and its records are loaded.
StartFile ==
    /\ pc = "scan"
    /\ \E file \in remaining :
          /\ remaining' = remaining \ {file}
          /\ cluster_idx' = file
    /\ \E n \in 0..MaxRecords :
       \E fields \in [1..n -> FileFields] :
          data' = [i \in 1..n |-> [file |-> fields[i]]]
    /\ source_to_num' = new_source_to_num
    /\ pos' = 1
    /\ pc' = "records"
    /\ UNCHANGED <<charts, printed, gate_vars, patch_vars>>

\* One turn of `for ins in data`.
CountRecord ==
    /\ pc = "records"
    /\ pos <= Len(data)
    /\ LET r == increment(source_to_num, source_of(data[pos]))
       IN  \/ /\ r.raised = ""
              /\ source_to_num' = r.tally
              /\ pos' = pos + 1
              /\ pc' = "records"
           \/ /\ r.raised # ""
              /\ pc' = "failed"
              /\ UNCHANGED <<source_to_num, pos>>
    /\ UNCHANGED <<remaining, cluster_idx, data, charts, printed, gate_vars, patch_vars>>

\* barh(source_to_num, ...) writes cluster_<cluster_idx>.png, then print(Done).
Render ==
    /\ pc = "records"
    /\ pos > Len(data)
    /\ charts' = [c \in DOMAIN charts \cup {cluster_idx} |->
                     IF c = cluster_idx THEN source_to_num ELSE charts[c]]
    /\ printed' = printed \cup {cluster_idx}
    /\ pc' = "scan"
    /\ UNCHANGED <<remaining, cluster_idx, data, pos, source_to_num, gate_vars, patch_vars>>

\* The scan is exhausted: main returns.
Finish ==
    /\ pc = "scan"
    /\ remaining = {}
    /\ pc' = "done"
    /\ UNCHANGED <<remaining, cluster_idx, data, pos, source_to_num, charts, printed, gate_vars, patch_vars>>

(***************************************************************************)
(* Specifications                                                          *)
(***************************************************************************)
GateNext ==
    \/ Construct
    \/ SetTraining
    \/ Feed
    \/ Release
    \/ Forward
    \/ ForwardReturnScores

PatchNext ==
    \/ ChangeForward
    \/ ForwardPass

ClusterNext ==
    \/ StartFile
    \/ CountRecord
    \/ Render
    \/ Finish

GateSpec == GateInit /\ [][GateNext]_vars
PatchSpec == PatchInit /\ [][PatchNext]_vars
ClusterSpec == ClusterInit /\ [][ClusterNext]_vars

(***************************************************************************)
(* Properties of the gate (GateSpec)                                       *)
(***************************************************************************)
Called(r) == r.outcome \in {"returned", "raised"}

Distinct(row) == \A i, j \in DOMAIN row : i # j => row[i] # row[j]

\* C1: for 1 <= num_selects <= num_experts, in every mode and for every batch,
\* forward completes and returns num_selects distinct expert indices per row,
\* each a valid expert (experts are numbered from 1 here, from 0 in the code).
C1_ForwardSelectsDistinctExperts ==
    Called(fwd) =>
        /\ fwd.outcome = "returned"
        /\ Len(fwd.top_k_indices) = Len(inp.logits_gate)
        /\ \A b \in DOMAIN fwd.top_k_indices :
              /\ Len(fwd.top_k_indices[b]) = gate.num_selects
              /\ \A j \in DOMAIN fwd.top_k_indices[b] :
                    fwd.top_k_indices[b][j] \in 1..gate.num_experts
              /\ Distinct(fwd.top_k_indices[b])

\* C2: forward returns a gate_loss that is not None exactly when the module
\* is in training mode with use_balance, whatever add_noise and use_softmax are.
C2_LossIffTrainingAndBalance ==
    Called(fwd) =>
        ((fwd.outcome = "returned" /\ fwd.gate_loss.kind # "None")
            <=> (gate.training /\ gate.use_balance))

\* What holds of the calls that do return: the loss is there exactly in
\* training mode with use_balance.
LossPolicyOnReturn ==
    fwd.outcome = "returned" =>
        ((fwd.gate_loss.kind # "None") <=> (gate.training /\ gate.use_balance))

\* C3: on the same module state, batch and noise sample, forward_return_scores
\* completes whenever forward does and returns the same gate_loss.
C3_ReturnScoresAgreesWithForward ==
    (fwd.outcome = "returned" /\ Called(frs)) =>
        /\ frs.outcome = "returned"
        /\ frs.gate_loss = fwd.gate_loss

\* C7: in training with add_noise and use_balance, is_in[b][e] is true exactly
\* when the noisy logit of expert e in row b exceeds the row's threshold_if_in,
\* and the probability uses threshold_if_in when is_in, else threshold_if_out.
C7_IsInComparesNoisyLogit ==
    (fwd.outcome = "returned" /\ fwd.internals.balanced /\ fwd.internals.noisy) =>
        \A b \in DOMAIN inp.logits_gate :
            \A e \in 1..gate.num_experts :
                /\ fwd.internals.is_in[b][e]
                      <=> (inp.logits_gate[b][e] + inp.logits_noise[b][e]
                              > fwd.internals.threshold_if_in[b])
                /\ fwd.internals.load[e][b].cdf_of =
                      inp.logits_gate[b][e]
                        - (IF fwd.internals.is_in[b][e]
                           THEN fwd.internals.threshold_if_in[b]
                           ELSE fwd.internals.threshold_if_out[b])

RECURSIVE SumTo(_, _)
SumTo(v, e) == IF e = 0 THEN 0 ELSE v[e] + SumTo(v, e - 1)

\* C8: in training with use_balance and without add_noise, load[e] is the
\* number of rows whose top_k_indices contain e, for either use_softmax and
\* for every logit value, so the loads sum to batch_size * num_selects.
C8_LoadCountsSelections ==
    (fwd.outcome = "returned" /\ fwd.internals.balanced /\ ~fwd.internals.noisy) =>
        /\ \A e \in 1..gate.num_experts :
              fwd.internals.load[e] =
                  Cardinality({b \in DOMAIN fwd.top_k_indices :
                                  \E j \in DOMAIN fwd.top_k_indices[b] :
                                      fwd.top_k_indices[b][j] = e})
        /\ SumTo(fwd.internals.load, gate.num_experts)
              = Len(inp.logits_gate) * gate.num_selects

CasePairs ==
    { <<"L", "l">>, <<"I", "i">>, <<"N", "n">>, <<"E", "e">>, <<"A", "a">>,
      <<"R", "r">>, <<"M", "m">>, <<"P", "p">> }

SameLetter(c, d) == c = d \/ <<c, d>> \in CasePairs \/ <<d, c>> \in CasePairs

ValidNameIgnoringCase(s) ==
    \E v \in valid_gate_type :
        /\ Len(s) = Len(v)
        /\ \A i \in 1..Len(v) : SameLetter(s[i], v[i])

\* C5: construction fails when num_selects > num_experts and when gate_network
\* is neither "linear" nor "mlp" compared case-insensitively, and then no gate
\* exists, so nothing has been computed by a forward; with num_selects <=
\* num_experts and a valid name in any letter case it succeeds.
C5_ConstructionValidates ==
    /\ call.op = "construct" =>
          LET a == call.args
          IN  /\ a.num_selects > a.num_experts => (call.raised # "" /\ ~gate.exists)
              /\ ~ValidNameIgnoringCase(a.gate_network) => (call.raised # "" /\ ~gate.exists)
              /\ (a.num_selects <= a.num_experts /\ ValidNameIgnoringCase(a.gate_network)) =>
                    /\ call.raised = ""
                    /\ call.network \in valid_gate_type
                    /\ Len(call.network) = Len(a.gate_network)
                    /\ gate.exists
                    /\ gate.num_experts = a.num_experts
                    /\ gate.num_selects = a.num_selects
                    /\ gate.use_balance = a.use_balance
                    /\ gate.add_noise = a.add_noise
                    /\ gate.use_softmax = a.use_softmax
    /\ ~gate.exists => (~inp.given /\ ~Called(fwd) /\ ~Called(frs))

\* A gate built from a name in mixed letter case.
C5_Witness ==
    /\ call.op = "construct"
    /\ call.args.gate_network = <<"m", "L", "p">>
    /\ call.args.num_selects = call.args.num_experts
    /\ call.raised = ""
    /\ gate.exists
    /\ call.network = mlp

(***************************************************************************)
(* Properties of the instrumentation patch (PatchSpec)                     *)
(***************************************************************************)
HoldsCounts(model) ==
    \E idx \in 1..Len(model.layers) :
        /\ model.layers[idx].acc.attached
        /\ model.layers[idx].acc.samples_cnt > 0

AllZero(acc) ==
    /\ acc.attached
    /\ acc.samples_cnt = 0
    /\ acc.importance_loss_sum = 0
    /\ acc.load_loss_sum = 0
    /\ \A e \in DOMAIN acc.load_sum : acc.importance_sum[e] = 0 /\ acc.load_sum[e] = 0

SecondApplication ==
    /\ patch_call.op = "change_forward"
    /\ patch_call.raised = ""
    /\ HoldsCounts(patch_call.before)

\* C6: a second application of change_forward to a model whose accumulators
\* hold counts leaves every accumulator with its stale value.
C6_SecondPatchKeepsCounts ==
    SecondApplication =>
        \A idx \in 1..Len(llama_model.layers) :
            llama_model.layers[idx].acc = patch_call.before.layers[idx].acc

\* C6, amended: a second application of change_forward to a model whose
\* accumulators hold counts sets every layer's samples_cnt and four sums to zero.
C6_SecondPatchResetsCounts ==
    SecondApplication =>
        \A idx \in 1..Len(llama_model.layers) : AllZero(llama_model.layers[idx].acc)

\* A second application on a model of two layers that both held counts.
C6_Witness ==
    /\ SecondApplication
    /\ Len(llama_model.layers) = 2
    /\ \A idx \in 1..2 :
          /\ patch_call.before.layers[idx].acc.samples_cnt = MaxSamples
          /\ patch_call.before.layers[idx].acc.load_loss_sum > 0

FailedPatch == patch_call.op = "change_forward" /\ patch_call.raised # ""

BadLayers(model) ==
    {idx \in 1..Len(model.layers) : model.layers[idx].gate_type # "TopKBalancedNoisyGate"}

\* C10: when some layer's gate is not a TopKBalancedNoisyGate, change_forward
\* fails and leaves the model exactly as it was before the call.
C10_FailedPatchChangesNothing ==
    /\ patch_call.op = "change_forward" =>
          (BadLayers(patch_call.before) # {} <=> patch_call.raised # "")
    /\ FailedPatch => llama_model = patch_call.before

\* C10, amended: when some layer's gate is not a TopKBalancedNoisyGate,
\* change_forward fails at the first such layer: the model forward is replaced,
\* every layer before it has its three forwards replaced and its accumulators
\* zero, and that layer and the layers after it are as they were.
C10_FailedPatchStopsAtFirstBadLayer ==
    /\ patch_call.op = "change_forward" =>
          (BadLayers(patch_call.before) # {} <=> patch_call.raised # "")
    /\ FailedPatch =>
          LET before == patch_call.before
              first == CHOOSE idx \in BadLayers(before) :
                           \A other \in BadLayers(before) : idx <= other
          IN  /\ patch_call.raised = "AssertionError"
              /\ llama_model.forward = "patched"
              /\ Len(llama_model.layers) = Len(before.layers)
              /\ \A idx \in 1..Len(before.layers) :
                    IF idx < first
                    THEN /\ llama_model.layers[idx].forward = "patched"
                         /\ llama_model.layers[idx].mlp_forward = "patched"
                         /\ llama_model.layers[idx].gate_forward = "patched"
                         /\ llama_model.layers[idx].gate_type = before.layers[idx].gate_type
                         /\ AllZero(llama_model.layers[idx].acc)
                    ELSE llama_model.layers[idx] = before.layers[idx]

\* The first application to a fresh model whose second layer has another gate.
C10_Witness ==
    /\ FailedPatch
    /\ patch_call.before.forward = "original"
    /\ Len(llama_model.layers) = 2
    /\ patch_call.before.layers[1].gate_forward = "original"
    /\ llama_model.layers[1].gate_forward = "patched"
    /\ llama_model.layers[2].gate_forward = "original"

(***************************************************************************)
(* Properties of the cluster tally (ClusterSpec)                           *)
(***************************************************************************)
\* The part of a string before its first "-" (all of it when it has none).
CutAtFirstDash(s) ==
    LET n == CHOOSE k \in 0..Len(s) :
                 /\ \A j \in 1..k : s[j] # "-"
                 /\ (k < Len(s) => s[k + 1] = "-")
    IN  SubSeq(s, 1, n)

CountOf(records, upto, s) ==
    Cardinality({i \in 1..upto : CutAtFirstDash(records[i].file) = s})

TallyTotal(t) ==
    t[arxiv] + t[books] + t[c4] + t[commoncrawl] + t[github] + t[stackexchange] + t[wikipedia]

\* C4: the tally handed to the renderer for a file has exactly the seven keys,
\* each valued with the number of that file's records whose `file` field cut at
\* its first "-" is the key (summing to the record count), whatever was counted
\* for the files before it and in whatever order the files came.
C4_TallyCountsOwnRecords ==
    (pc \in {"scan", "done"} /\ cluster_idx \in DOMAIN charts) =>
        LET t == charts[cluster_idx]
        IN  /\ DOMAIN t = Sources
            /\ \A s \in Sources : t[s] = CountOf(data, Len(data), s)
            /\ TallyTotal(t) = Len(data)

\* A file with arxiv-1 and arxiv-2-x rendered after a file that counted arxiv.
C4_Witness ==
    /\ pc = "scan"
    /\ cluster_idx \in DOMAIN charts
    /\ Len(data) = 2
    /\ data[1].file # data[2].file
    /\ charts[cluster_idx][arxiv] = 2
    /\ \E c \in DOMAIN charts : c # cluster_idx /\ charts[c][arxiv] >= 1

\* C9: a record whose source key is none of the seven fails the run at that
\* record: no such record is passed over, the tally then holds exactly the
\* records before it, the file gets no chart and no Done line, nothing runs
\* afterwards, and the charts and Done lines of earlier files stay as they were.
C9_UnknownSourceAborts ==
    /\ [](/\ \A j \in 1..(pos - 1) : CutAtFirstDash(data[j].file) \in Sources
          /\ pos <= Len(data) + 1
          /\ pc = "failed" =>
                /\ pos <= Len(data)
                /\ CutAtFirstDash(data[pos].file) \notin Sources
                /\ \A s \in Sources : source_to_num[s] = CountOf(data, pos - 1, s)
                /\ cluster_idx \notin DOMAIN charts
                /\ cluster_idx \notin printed)
    /\ [][/\ pc = "failed" => UNCHANGED cluster_vars
          /\ pc' = "failed" =>
                (charts' = charts /\ printed' = printed /\ remaining' = remaining)]_vars

\* The second record of a file is unknown, after another file was rendered
\* and with a file still to come.
C9_Witness ==
    /\ pc = "failed"
    /\ pos = 2
    /\ DOMAIN charts # {}
    /\ remaining # {}

====
